---- MODULE Spec2Model ----
(***************************************************************************)
(* Debug-scope construction of rustc_codegen_nvvm:                         *)
(*   crates/rustc_codegen_nvvm/src/debug_info/create_scope_map.rs          *)
(* compute_mir_scopes drives make_mir_scope once per SourceScope index;    *)
(* make_mir_scope recurses on the parent, then collapses the scope into    *)
(* its parent or materializes a node of its own.  The recursion is modelled*)
(* with an explicit call stack, one action per branch of the function.     *)
(***************************************************************************)
EXTENDS Integers, Sequences, FiniteSets, TLC

\* ------------------------------------------------------------------------
\* Bounds of the model
\* ------------------------------------------------------------------------
MaxScopes == 3        \* at most this many SourceScopes in a function body
MaxVars == 2          \* at most this many var_debug_info records

\* Option<T> is a set with at most one element.
None == {}
Some(x) == {x}
Unwrap(o) == CHOOSE x \in o : TRUE

\* ------------------------------------------------------------------------
\* Location Resolver: byte offsets, the files that contain them
\* ------------------------------------------------------------------------
\* Two source files, each spanning two byte offsets.
SourceFiles == <<[start_pos |-> 1, end_position |-> 3],
                 [start_pos |-> 3, end_position |-> 5]>>
\* The inlined call sites of the inputs: a callee and the byte offset of the
\* callsite span, one in each file.
InlinedSites == {[callee |-> 1, callsite_lo |-> 2], [callee |-> 2, callsite_lo |-> 4]}
CallsiteOffsets == {site.callsite_lo : site \in InlinedSites}

\* cx.lookup_debug_loc(pos): the file holding pos, and line/col (the offset
\* itself stands for the pair).
lookup_debug_loc(pos) ==
    LET f == CHOOSE i \in 1..Len(SourceFiles) :
                 SourceFiles[i].start_pos <= pos /\ pos < SourceFiles[i].end_position
    IN  [file |-> f, start_pos |-> SourceFiles[f].start_pos,
         end_position |-> SourceFiles[f].end_position, line_col |-> pos]

\* ------------------------------------------------------------------------
\* Debug-info nodes (opaque handles of the emitter)
\* ------------------------------------------------------------------------
\* A DIScope handle: kind "fn" (the function's own node), "callee" (the
\* function-level node of an inlined callee) or "block" (a lexical block,
\* id = its allocation number).  file > 0 marks the handle as extended to
\* another file (DILexicalBlockFile wrapper).
fn_dbg_scope == [kind |-> "fn", id |-> 0, file |-> 0]

\* cx.dbg_scope_fn(callee, ..): one node per callee, looked up, not created.
dbg_scope_fn(callee) == [kind |-> "callee", id |-> callee, file |-> 0]

\* DebugScope::adjust_dbg_scope_for_span: a span outside the scope's file is
\* given the scope extended to the span's file.
adjust_dbg_scope_for_span(parent_scope, pos) ==
    IF pos < parent_scope.file_start_pos \/ pos >= parent_scope.file_end_pos
    THEN [parent_scope.dbg_scope EXCEPT !.file = lookup_debug_loc(pos).file]
    ELSE parent_scope.dbg_scope

\* cx.dbg_loc(scope, inlined_at, span): a uniqued DILocation.
dbg_loc(scope, inlined_at, pos) ==
    [scope |-> scope, inlined_at |-> inlined_at, pos |-> pos, discriminator |-> 0]

\* LLVMRustDILocationCloneWithBaseDiscriminator(loc, d), when it succeeds.
CloneWithBaseDiscriminator(loc, d) == [loc EXCEPT !.discriminator = d]

\* The entry every slot of debug_context.scopes holds before the pass.
empty_scope ==
    [dbg_scope |-> fn_dbg_scope, inlined_at |-> None,
     file_start_pos |-> 0, file_end_pos |-> 0]

\* ------------------------------------------------------------------------
\* State
\* ------------------------------------------------------------------------
VARIABLES
    mir,             \* the function body: source_scopes, var_debug_info
    debuginfo,       \* cx.sess().opts.debuginfo
    variables,       \* Option<set of scopes with variables>
    instantiated,    \* set of scopes marked instantiated
    discriminators,  \* map: callsite offset -> counter
    scopes,          \* debug_context.scopes
    idx,             \* loop index of compute_mir_scopes
    stack,           \* call stack of make_mir_scope, innermost frame last
    pc,              \* "start", "loop", "done", "panicked"
    blocks,          \* lexical blocks created so far (the node allocator)
    calls,           \* history of calls into collaborators and table writes
    written          \* scopes whose table entry make_mir_scope has written

vars == <<mir, debuginfo, variables, instantiated, discriminators, scopes,
          idx, stack, pc, blocks, calls, written>>

NumScopes == Cardinality(DOMAIN mir.source_scopes)
ScopeIds == DOMAIN mir.source_scopes
parent_of(s) == mir.source_scopes[s].parent_scope
inlined_of(s) == mir.source_scopes[s].inlined
IsRoot(s) == parent_of(s) = None

\* ------------------------------------------------------------------------
\* Well-formed inputs
\* ------------------------------------------------------------------------
RECURSIVE ReachesRoot(_, _, _)
ReachesRoot(par, s, fuel) ==
    IF s = 0 THEN TRUE
    ELSE IF fuel = 0 THEN FALSE
    ELSE ReachesRoot(par, par[s], fuel - 1)

\* Parent maps over scopes 0..n-1 that form one tree rooted at scope 0.
ParentMaps(n) ==
    {par \in [1..(n-1) -> 0..(n-1)] :
        \A s \in 1..(n-1) : ReachesRoot(par, s, n)}

InlinedChoices == {None} \cup {Some(site) : site \in InlinedSites}

\* The span start of scope s: the root and scope 1 lie in the second file,
\* the next two scopes in the first, and so on.
SpanLo(s) == 1 + ((s + 2) % 4)

SourceScopeTables ==
    UNION {
      { [s \in 0..(n-1) |->
            [parent_scope |-> IF s = 0 THEN None ELSE Some(par[s]),
             span_lo |-> SpanLo(s),
             inlined |-> IF s = 0 THEN None ELSE inl[s]]] :
          par \in ParentMaps(n), inl \in [1..(n-1) -> InlinedChoices] } :
        n \in 1..MaxScopes }

RECURSIVE SeqsUpTo(_, _)
SeqsUpTo(S, k) ==
    IF k = 0 THEN {<<>>}
    ELSE LET shorter == SeqsUpTo(S, k - 1)
         IN  shorter \cup {Append(q, x) : q \in shorter, x \in S}

Init ==
    /\ \E tbl \in SourceScopeTables :
       \E vdi \in SeqsUpTo(DOMAIN tbl, MaxVars) :
          mir = [source_scopes |-> tbl, var_debug_info |-> vdi,
                 span_lo |-> tbl[0].span_lo]
    /\ debuginfo \in {"Limited", "Full"}
    /\ variables = None
    /\ instantiated = {}
    /\ discriminators = [x \in {} |-> 0]
    /\ scopes = [s \in DOMAIN mir.source_scopes |-> empty_scope]
    /\ idx = 0
    /\ stack = <<>>
    /\ pc = "start"
    /\ blocks = <<>>
    /\ calls = <<>>
    /\ written = {}


\* ------------------------------------------------------------------------
\* compute_mir_scopes
\* ------------------------------------------------------------------------
Event(op, scope, key, val) == [op |-> op, scope |-> scope, key |-> key, val |-> val]

\* Variant: the set is created anew for every record, so only the last stays.
ScopesWithVariables_last_only ==
    {mir.var_debug_info[i] : i \in {Len(mir.var_debug_info)} \ {0}}

\* vars.insert(scope) for every var_debug_info record.
ScopesWithVariables ==
    {mir.var_debug_info[i] : i \in 1..Len(mir.var_debug_info)}

\* Lines 31-48: the Variable-Usage Set, then the empty per-pass tables.
ComputeVariables ==
    /\ pc = "start"
    /\ variables' = IF debuginfo = "Full" THEN Some(ScopesWithVariables) ELSE None
    /\ instantiated' = {}
    /\ discriminators' = [x \in {} |-> 0]
    /\ pc' = "loop"
    /\ UNCHANGED <<mir, debuginfo, scopes, idx, stack, blocks, calls, written>>

\* Lines 50-62: one make_mir_scope call per index, in ascending order.
DriverCall ==
    /\ pc = "loop"
    /\ stack = <<>>
    /\ idx < NumScopes
    /\ stack' = <<[scope |-> idx, at |-> "entry"]>>
    /\ idx' = idx + 1
    /\ UNCHANGED <<mir, debuginfo, variables, instantiated, discriminators,
                   scopes, pc, blocks, calls, written>>

\* Variant: the loop stops one index early.
DriverFinish_early ==
    /\ pc = "loop"
    /\ stack = <<>>
    /\ idx >= NumScopes - 1
    /\ pc' = "done"
    /\ UNCHANGED <<mir, debuginfo, variables, instantiated, discriminators,
                   scopes, idx, stack, blocks, calls, written>>

\* Line 63: the loop is over.
DriverFinish ==
    /\ pc = "loop"
    /\ stack = <<>>
    /\ idx = NumScopes
    /\ pc' = "done"
    /\ UNCHANGED <<mir, debuginfo, variables, instantiated, discriminators,
                   scopes, idx, stack, blocks, calls, written>>

\* ------------------------------------------------------------------------
\* make_mir_scope
\* ------------------------------------------------------------------------
Running == pc = "loop" /\ stack # <<>>
top == stack[Len(stack)]
Return == SubSeq(stack, 1, Len(stack) - 1)

\* Lines 75-77: memoized, return at once.
MemoReturn ==
    /\ Running
    /\ top.at = "entry"
    /\ top.scope \in instantiated
    /\ stack' = Return
    /\ UNCHANGED <<mir, debuginfo, variables, instantiated, discriminators,
                   scopes, idx, pc, blocks, calls, written>>

\* Variant: the root is marked instantiated after its bounds are stored.
RootStore_marks_instantiated ==
    /\ pc = "loop" /\ stack # <<>>
    /\ stack[Len(stack)].at = "entry"
    /\ stack[Len(stack)].scope \notin instantiated
    /\ mir.source_scopes[stack[Len(stack)].scope].parent_scope = None
    /\ scopes' = [scopes EXCEPT ![stack[Len(stack)].scope] =
                    [@ EXCEPT !.file_start_pos = lookup_debug_loc(mir.span_lo).start_pos,
                              !.file_end_pos = lookup_debug_loc(mir.span_lo).end_position]]
    /\ instantiated' = instantiated \cup {stack[Len(stack)].scope}
    /\ calls' = Append(calls, Event("write", stack[Len(stack)].scope, 0, 0))
    /\ written' = written \cup {stack[Len(stack)].scope}
    /\ stack' = SubSeq(stack, 1, Len(stack) - 1)
    /\ UNCHANGED <<mir, debuginfo, variables, discriminators, idx, pc, blocks>>

\* Lines 92-101: the root stores the bounds of the function's file.
RootStore ==
    /\ Running
    /\ top.at = "entry"
    /\ top.scope \notin instantiated
    /\ IsRoot(top.scope)
    /\ LET loc == lookup_debug_loc(mir.span_lo)
       IN  scopes' = [scopes EXCEPT ![top.scope] =
                        [@ EXCEPT !.file_start_pos = loc.start_pos,
                                  !.file_end_pos = loc.end_position]]
    /\ calls' = Append(calls, Event("write", top.scope, 0, 0))
    /\ written' = written \cup {top.scope}
    /\ stack' = Return
    /\ UNCHANGED <<mir, debuginfo, variables, instantiated, discriminators,
                   idx, pc, blocks>>

\* Variant: the parent's record is read without the recursive call.
RecurseParent_no_call ==
    /\ pc = "loop" /\ stack # <<>>
    /\ stack[Len(stack)].at = "entry"
    /\ stack[Len(stack)].scope \notin instantiated
    /\ mir.source_scopes[stack[Len(stack)].scope].parent_scope # None
    /\ stack' = [stack EXCEPT ![Len(stack)].at = "parent_done"]
    /\ UNCHANGED <<mir, debuginfo, variables, instantiated, discriminators,
                   scopes, idx, pc, blocks, calls, written>>

\* Lines 80-90: recurse on the parent first.
RecurseParent ==
    /\ Running
    /\ top.at = "entry"
    /\ top.scope \notin instantiated
    /\ ~IsRoot(top.scope)
    /\ stack' = Append([stack EXCEPT ![Len(stack)].at = "parent_done"],
                       [scope |-> Unwrap(parent_of(top.scope)), at |-> "entry"])
    /\ UNCHANGED <<mir, debuginfo, variables, instantiated, discriminators,
                   scopes, idx, pc, blocks, calls, written>>

\* Variant: the inlining test of line 105 is missing.
collapse_ignores_inlined(scope) ==
    /\ variables # None
    /\ scope \notin Unwrap(variables)

\* Variant: a missing usage set counts as "no variables in this scope".
collapse_without_set(scope) ==
    /\ variables # None => scope \notin Unwrap(variables)
    /\ mir.source_scopes[scope].inlined = None

\* Variant: the membership test of line 104 without its negation.
collapse_if_in_vars(scope) ==
    /\ variables # None
    /\ scope \in Unwrap(variables)
    /\ mir.source_scopes[scope].inlined = None

\* Lines 103-105: the collapse decision.
collapse(scope) ==
    /\ variables # None
    /\ scope \notin Unwrap(variables)
    /\ inlined_of(scope) = None

\* Lines 91, 106-112: the scope takes its parent's record and is marked.
Collapse ==
    /\ Running
    /\ top.at = "parent_done"
    /\ collapse(top.scope)
    /\ LET parent_scope == scopes[Unwrap(parent_of(top.scope))]
       IN  scopes' = [scopes EXCEPT ![top.scope] = parent_scope]
    /\ instantiated' = instantiated \cup {top.scope}
    /\ calls' = Append(calls, Event("write", top.scope, 0, 0))
    /\ written' = written \cup {top.scope}
    /\ stack' = Return
    /\ UNCHANGED <<mir, debuginfo, variables, discriminators, idx, pc, blocks>>

\* Lines 117-138: the node of a scope that is not collapsed: the callee's
\* function-level node, or a fresh lexical block (the next allocation).
new_dbg_scope(scope) ==
    IF inlined_of(scope) # None
    THEN dbg_scope_fn(Unwrap(inlined_of(scope)).callee)
    ELSE [kind |-> "block", id |-> Len(blocks) + 1, file |-> 0]

\* Lines 129-137: LLVMRustDIBuilderCreateLexicalBlock appends to the allocator.
CreateLexicalBlock(scope, parent_scope, loc) ==
    IF inlined_of(scope) # None THEN blocks
    ELSE Append(blocks, [parent |-> parent_scope.dbg_scope, file |-> loc.file,
                         line_col |-> loc.line_col, scope |-> scope])

\* Variant: the location is built without an enclosing inlined_at.
callsite_loc_no_chain(scope, parent_scope) ==
    dbg_loc(adjust_dbg_scope_for_span(parent_scope,
               Unwrap(inlined_of(scope)).callsite_lo),
            None, Unwrap(inlined_of(scope)).callsite_lo)

\* Lines 141-142: the caller-side location of the callsite.
callsite_loc(scope, parent_scope) ==
    LET callsite_lo == Unwrap(inlined_of(scope)).callsite_lo
    IN  dbg_loc(adjust_dbg_scope_for_span(parent_scope, callsite_lo),
                parent_scope.inlined_at, callsite_lo)

\* Lines 162-172: discriminators.entry(lo): Occupied adds 1, Vacant inserts 0.
entry_occupied(lo) == lo \in DOMAIN discriminators
\* Variant: an occupied entry is left as it is.
discriminators_entry_no_increment(lo) ==
    IF lo \in DOMAIN discriminators
    THEN discriminators
    ELSE [x \in DOMAIN discriminators \cup {lo} |->
             IF x = lo THEN 0 ELSE discriminators[x]]

discriminators_entry(lo) ==
    IF entry_occupied(lo)
    THEN [discriminators EXCEPT ![lo] = @ + 1]
    ELSE [x \in DOMAIN discriminators \cup {lo} |->
             IF x = lo THEN 0 ELSE discriminators[x]]

\* Variant: the location is used unmodified whether or not the entry is occupied.
new_inlined_at_unmodified(scope, parent_scope) ==
    IF inlined_of(scope) = None THEN None
    ELSE Some(callsite_loc(scope, parent_scope))

\* Lines 140-173: inlined_at of an inlined scope when the clone succeeds.
new_inlined_at(scope, parent_scope) ==
    IF inlined_of(scope) = None THEN None
    ELSE LET lo == Unwrap(inlined_of(scope)).callsite_lo
             loc == callsite_loc(scope, parent_scope)
         IN  IF entry_occupied(lo)
             THEN Some(CloneWithBaseDiscriminator(loc, discriminators_entry(lo)[lo]))
             ELSE Some(loc)

\* Line 177: inlined_at.or(parent_scope.inlined_at)
or(inlined_at, other) == IF inlined_at # None THEN inlined_at ELSE other

\* The collaborator calls of lines 114-173, in program order.
materialize_calls(scope) ==
    IF inlined_of(scope) = None
    THEN <<Event("CreateLexicalBlock", scope, 0, Len(blocks) + 1)>>
    ELSE LET inl == Unwrap(inlined_of(scope))
             lo == inl.callsite_lo
         IN  <<Event("dbg_scope_fn", scope, inl.callee, 0),
               Event("dbg_loc", scope, lo, 0),
               Event("entry", scope, lo, discriminators_entry(lo)[lo])>>
             \o (IF entry_occupied(lo)
                 THEN <<Event("clone", scope, lo, discriminators_entry(lo)[lo])>>
                 ELSE <<>>)

\* Lines 91, 114-181: the scope gets a node of its own.
Materialize ==
    /\ Running
    /\ top.at = "parent_done"
    /\ ~collapse(top.scope)
    /\ LET scope == top.scope
           parent_scope == scopes[Unwrap(parent_of(scope))]
           loc == lookup_debug_loc(mir.source_scopes[scope].span_lo)
       IN  /\ blocks' = CreateLexicalBlock(scope, parent_scope, loc)
           /\ discriminators' =
                 IF inlined_of(scope) = None THEN discriminators
                 ELSE discriminators_entry(Unwrap(inlined_of(scope)).callsite_lo)
           /\ scopes' = [scopes EXCEPT ![scope] =
                 [dbg_scope |-> new_dbg_scope(scope),
                  inlined_at |-> or(new_inlined_at(scope, parent_scope),
                                    parent_scope.inlined_at),
                  file_start_pos |-> loc.start_pos,
                  file_end_pos |-> loc.end_position]]
           /\ calls' = calls \o materialize_calls(scope)
                             \o <<Event("write", scope, 0, 0)>>
           /\ written' = written \cup {scope}
    /\ stack' = Return
    /\ UNCHANGED <<mir, debuginfo, variables, instantiated, idx, pc>>

\* Variant: the record is stored with the unmodified location before the
\* failure is raised.
MaterializePanic_after_write ==
    /\ pc = "loop" /\ stack # <<>>
    /\ stack[Len(stack)].at = "parent_done"
    /\ ~collapse(stack[Len(stack)].scope)
    /\ inlined_of(stack[Len(stack)].scope) # None
    /\ entry_occupied(Unwrap(inlined_of(stack[Len(stack)].scope)).callsite_lo)
    /\ discriminators' =
          discriminators_entry(Unwrap(inlined_of(stack[Len(stack)].scope)).callsite_lo)
    /\ calls' = calls \o materialize_calls(stack[Len(stack)].scope)
    /\ scopes' = [scopes EXCEPT ![stack[Len(stack)].scope] =
          [dbg_scope |-> new_dbg_scope(stack[Len(stack)].scope),
           inlined_at |-> Some(callsite_loc(stack[Len(stack)].scope,
              scopes[Unwrap(parent_of(stack[Len(stack)].scope))])),
           file_start_pos |-> @.file_start_pos,
           file_end_pos |-> @.file_end_pos]]
    /\ pc' = "panicked"
    /\ UNCHANGED <<mir, debuginfo, variables, instantiated, idx, stack,
                   blocks, written>>

\* Lines 163-166: the clone fails on an occupied entry; expect() panics and
\* the pass is abandoned before the record is written.
MaterializePanic ==
    /\ Running
    /\ top.at = "parent_done"
    /\ ~collapse(top.scope)
    /\ inlined_of(top.scope) # None
    /\ entry_occupied(Unwrap(inlined_of(top.scope)).callsite_lo)
    /\ discriminators' = discriminators_entry(Unwrap(inlined_of(top.scope)).callsite_lo)
    /\ calls' = calls \o materialize_calls(top.scope)
    /\ pc' = "panicked"
    /\ UNCHANGED <<mir, debuginfo, variables, instantiated, scopes, idx, stack,
                   blocks, written>>

make_mir_scope ==
    \/ MemoReturn
    \/ RootStore
    \/ RecurseParent
    \/ Collapse
    \/ Materialize
    \/ MaterializePanic

compute_mir_scopes ==
    \/ ComputeVariables
    \/ DriverCall
    \/ DriverFinish

Next ==
    \/ compute_mir_scopes
    \/ make_mir_scope

Spec == Init /\ [][Next]_vars

\* The pass is one sequential computation that is never suspended: whenever a
\* step of it is possible, a step is taken.
FairSpec == Spec /\ WF_vars(Next)

\* ------------------------------------------------------------------------
\* Vocabulary of the properties
\* ------------------------------------------------------------------------
NonRootScopes == {s \in ScopeIds : ~IsRoot(s)}
ParentId(s) == Unwrap(parent_of(s))
IsInlined(s) == inlined_of(s) # None
CallsiteLo(s) == Unwrap(inlined_of(s)).callsite_lo

\* Number of table writes make_mir_scope has made for scope s.
WriteCount(s) ==
    Cardinality({i \in 1..Len(calls) : calls[i].op = "write" /\ calls[i].scope = s})

\* The Discriminator Table consults at offset x, in call order.
Consults(x) ==
    LET AtX(e) == e.op = "entry" /\ e.key = x
    IN  SelectSeq(calls, AtX)

\* The scopes whose inlining information names callsite offset x.
InlinedAt(x) == {s \in NonRootScopes : IsInlined(s) /\ CallsiteLo(s) = x}

\* The case of the collapse decision: a usage set is present, the scope is
\* absent from it and carries no inlining information.
CollapseCase(s) ==
    /\ variables # None
    /\ s \notin Unwrap(variables)
    /\ ~IsInlined(s)

HasChild(p) == \E c \in NonRootScopes : ParentId(c) = p

\* The top frame belongs to a non-root scope whose record was written before.
Revisit ==
    /\ Running
    /\ ~IsRoot(top.scope)
    /\ top.scope \in written

\* ------------------------------------------------------------------------
\* C1 - Idempotence: a step taken by make_mir_scope for a non-root scope
\* whose record an earlier call has written leaves that record as it is and
\* creates no lexical block, makes no collaborator call and leaves the
\* Discriminator Table alone.
\* ------------------------------------------------------------------------
C1_Idempotence ==
    [][Revisit =>
          /\ scopes'[top.scope] = scopes[top.scope]
          /\ blocks' = blocks
          /\ discriminators' = discriminators
          /\ calls' = calls]_vars

\* ------------------------------------------------------------------------
\* C2 - Exactly-once: the table entry of every non-root scope is written at
\* most once during the pass, and exactly once when the pass has finished.
\* ------------------------------------------------------------------------
C2_WrittenExactlyOnce ==
    \A s \in NonRootScopes :
       /\ WriteCount(s) <= 1
       /\ pc = "done" => WriteCount(s) = 1

\* ------------------------------------------------------------------------
\* C3 - Discriminator monotonicity: when the pass has finished, for every
\* callsite offset X carried by N inlined scopes, the consults at X produced
\* 0, 1, .., N-1 in order, the locations in the table carry exactly these
\* discriminators, and the table entry for X is N-1.
\* ------------------------------------------------------------------------
C3_DiscriminatorsPerScope ==
    pc = "done" =>
       \A x \in CallsiteOffsets :
          LET n == Cardinality(InlinedAt(x))
          IN  /\ Len(Consults(x)) = n
              /\ \A i \in 1..Len(Consults(x)) : Consults(x)[i].val = i - 1
              /\ {Unwrap(scopes[s].inlined_at).discriminator : s \in InlinedAt(x)}
                    = 0..(n - 1)
              /\ n > 0 => /\ x \in DOMAIN discriminators
                          /\ discriminators[x] = n - 1

\* ------------------------------------------------------------------------
\* C4 - Collapse decision at write time: with a usage set present, the step
\* that computes the record of a non-root scope absent from the set and
\* without inlining information writes the parent's record as it stands
\* right after the parent's instantiation, creates no node, leaves the
\* Discriminator Table alone, makes no collaborator call and marks the
\* scope instantiated.
\* ------------------------------------------------------------------------
C4_CollapseAtWrite ==
    [][(Running /\ top.at = "parent_done" /\ CollapseCase(top.scope)) =>
          /\ scopes'[top.scope].dbg_scope = scopes[ParentId(top.scope)].dbg_scope
          /\ scopes'[top.scope].inlined_at = scopes[ParentId(top.scope)].inlined_at
          /\ blocks' = blocks
          /\ discriminators' = discriminators
          /\ calls' = Append(calls, Event("write", top.scope, 0, 0))
          /\ top.scope \in instantiated']_vars

\* A collapsed scope whose parent owns a lexical block.
C4_Witness ==
    \E s \in NonRootScopes :
       /\ CollapseCase(s)
       /\ s \in instantiated
       /\ scopes[s].dbg_scope.kind = "block"
       /\ scopes[s].dbg_scope = scopes[ParentId(s)].dbg_scope

\* ------------------------------------------------------------------------
\* C5 - Collapsed scopes resolve to the parent's node in the finished table:
\* when the pass has finished, every collapsed scope has the dbg_scope and
\* the inlined_at its parent has in the table.
\* ------------------------------------------------------------------------
C5_CollapsedMatchesParent ==
    pc = "done" =>
       \A c \in NonRootScopes :
          CollapseCase(c) =>
             /\ scopes[c].dbg_scope = scopes[ParentId(c)].dbg_scope
             /\ scopes[c].inlined_at = scopes[ParentId(c)].inlined_at

\* ------------------------------------------------------------------------
\* C6 - Parent-before-child: whenever the record of a non-root scope is
\* about to be computed or is written, its parent's record has already been
\* written in this pass and carries file bounds, whatever the index order.
\* ------------------------------------------------------------------------
C6_ParentBeforeChild ==
    [][/\ (Running /\ top.at = "parent_done") =>
             ParentId(top.scope) \in written
       /\ \A s \in NonRootScopes :
             (WriteCount(s))' > WriteCount(s) =>
                /\ ParentId(s) \in written
                /\ scopes[ParentId(s)].file_end_pos
                      > scopes[ParentId(s)].file_start_pos]_vars

\* A scope was written whose parent has the larger index.
C6_Witness ==
    \E s \in NonRootScopes : s \in written /\ ParentId(s) > s

\* ------------------------------------------------------------------------
\* C7 - Two inlined scopes at the same callsite stay distinguishable: when
\* the pass has finished, two distinct scopes inlined at the same callsite
\* offset both have their callee's function-level node as dbg_scope and
\* different inlined_at locations; when they are the only two scopes at the
\* offset and are leaf siblings, their discriminators are 0 and 1 in
\* instantiation (index) order.
\* ------------------------------------------------------------------------
C7_InlinedDistinguishable ==
    pc = "done" =>
       \A s, t \in NonRootScopes :
          (s < t /\ IsInlined(s) /\ IsInlined(t) /\ CallsiteLo(s) = CallsiteLo(t)) =>
             /\ scopes[s].dbg_scope =
                   [kind |-> "callee", id |-> Unwrap(inlined_of(s)).callee, file |-> 0]
             /\ scopes[t].dbg_scope =
                   [kind |-> "callee", id |-> Unwrap(inlined_of(t)).callee, file |-> 0]
             /\ scopes[s].inlined_at # None
             /\ scopes[t].inlined_at # None
             /\ scopes[s].inlined_at # scopes[t].inlined_at
             /\ (/\ InlinedAt(CallsiteLo(s)) = {s, t}
                 /\ ParentId(s) = ParentId(t)
                 /\ ~HasChild(s) /\ ~HasChild(t)) =>
                   /\ Unwrap(scopes[s].inlined_at).discriminator = 0
                   /\ Unwrap(scopes[t].inlined_at).discriminator = 1

\* The pass finished on two leaf siblings inlined from one callee at one
\* callsite offset.
C7_Witness ==
    /\ pc = "done"
    /\ \E s, t \in NonRootScopes :
          /\ s < t
          /\ IsInlined(s) /\ IsInlined(t)
          /\ inlined_of(s) = inlined_of(t)
          /\ ParentId(s) = ParentId(t)
          /\ ~HasChild(s) /\ ~HasChild(t)
          /\ Unwrap(scopes[t].inlined_at).discriminator = 1

\* ------------------------------------------------------------------------
\* C8 - Root invariants: in every state the root's dbg_scope is the
\* pre-seeded function node and its inlined_at is absent; once a call has
\* reached the root its file bounds are those of the file holding the
\* function's span start; the root never reaches the collapse decision,
\* never causes a node-constructor or Discriminator Table call and is never
\* in the Instantiated-set.
\* ------------------------------------------------------------------------
C8_RootInvariants ==
    \A r \in ScopeIds :
       IsRoot(r) =>
          /\ scopes[r].dbg_scope = [kind |-> "fn", id |-> 0, file |-> 0]
          /\ scopes[r].inlined_at = None
          /\ r \in written =>
                \E f \in 1..Len(SourceFiles) :
                   /\ SourceFiles[f].start_pos <= mir.span_lo
                   /\ mir.span_lo < SourceFiles[f].end_position
                   /\ scopes[r].file_start_pos = SourceFiles[f].start_pos
                   /\ scopes[r].file_end_pos = SourceFiles[f].end_position
          /\ r \notin instantiated
          /\ \A i \in 1..Len(calls) : calls[i].scope = r => calls[i].op = "write"
          /\ \A k \in 1..Len(stack) : stack[k].scope = r => stack[k].at = "entry"

\* The root was visited more than once in a finished pass and holds the
\* bounds of the function's file.
C8_Witness ==
    /\ pc = "done"
    /\ \E r \in ScopeIds :
          /\ IsRoot(r)
          /\ WriteCount(r) >= 2
          /\ scopes[r].file_start_pos = SourceFiles[2].start_pos

\* ------------------------------------------------------------------------
\* C9 - Lexical-block creation count: when the pass has finished, the number
\* of lexical blocks created equals the number of non-root scopes that are
\* neither collapsed nor inlined.
\* ------------------------------------------------------------------------
C9_LexicalBlockCount ==
    pc = "done" =>
       Len(blocks) =
          Cardinality({s \in NonRootScopes : ~CollapseCase(s) /\ ~IsInlined(s)})

\* ------------------------------------------------------------------------
\* C10 - Discriminator Table contract: an entry is present exactly when its
\* offset has been consulted; a step that consults offset x sets the entry to
\* 0 when it was absent and adds exactly 1 otherwise; every other entry, and
\* every entry in a step without a consult, stays as it is.
\* ------------------------------------------------------------------------
C10_DiscriminatorTable ==
    [][\A x \in CallsiteOffsets :
          /\ x \in DOMAIN discriminators <=> Consults(x) # <<>>
          /\ IF \E i \in (Len(calls) + 1)..Len(calls') :
                   calls'[i].op = "entry" /\ calls'[i].key = x
             THEN /\ x \in DOMAIN discriminators'
                  /\ discriminators'[x] =
                        IF x \in DOMAIN discriminators
                        THEN discriminators[x] + 1 ELSE 0
             ELSE /\ x \in DOMAIN discriminators' <=> x \in DOMAIN discriminators
                  /\ x \in DOMAIN discriminators =>
                        discriminators'[x] = discriminators[x]]_vars

\* Both offsets have entries and one of them has been consulted twice.
C10_Witness ==
    /\ DOMAIN discriminators = CallsiteOffsets
    /\ \E x \in CallsiteOffsets : discriminators[x] = 1

\* ------------------------------------------------------------------------
\* C11 - Variable-Usage Set computation: once computed, the set is absent
\* exactly when the debug-info setting is not Full; under Full it holds a
\* scope exactly when some var_debug_info record names that scope; and no
\* step of the instantiation loop changes it.
\* ------------------------------------------------------------------------
C11_VariableUsageSet ==
    [][/\ pc' # "start" =>
             /\ variables' = None <=> debuginfo' # "Full"
             /\ variables' # None =>
                   \A s \in DOMAIN mir'.source_scopes :
                      s \in Unwrap(variables') <=>
                         \E i \in 1..Len(mir'.var_debug_info) :
                            mir'.var_debug_info[i] = s
       /\ pc = "loop" => variables' = variables]_vars

\* The set was computed from two records that name different scopes, the
\* larger index first, and the pass went on with it.
C11_Witness ==
    /\ pc = "done"
    /\ debuginfo = "Full"
    /\ Len(mir.var_debug_info) = 2
    /\ mir.var_debug_info[1] > mir.var_debug_info[2]
    /\ variables = Some({mir.var_debug_info[1], mir.var_debug_info[2]})

\* ------------------------------------------------------------------------
\* C12 - Fatal clone failure: a panic arises only while an inlined scope is
\* instantiated at a callsite offset whose entry was already present; the
\* panicking step writes no record and marks nothing, and after it no step
\* of the pass is taken (no later scope is instantiated, the pass never
\* finishes); the clone primitive is called only on an occupied entry.
\* ------------------------------------------------------------------------
C12_FatalCloneFailure ==
    [][/\ pc # "panicked"
       /\ pc' = "panicked" =>
             /\ Running
             /\ IsInlined(top.scope)
             /\ CallsiteLo(top.scope) \in DOMAIN discriminators
             /\ calls'[Len(calls')].op = "clone"
             /\ scopes' = scopes
             /\ written' = written
             /\ instantiated' = instantiated
             /\ idx' = idx
       /\ \A i \in (Len(calls) + 1)..Len(calls') :
             calls'[i].op = "clone" =>
                /\ calls'[i].key \in DOMAIN discriminators
                /\ calls'[i].val >= 1]_vars

\* The pass panicked on a scope that has no record yet while a later scope
\* is still waiting for its driver call.
C12_Witness ==
    /\ pc = "panicked"
    /\ top.scope \notin written
    /\ idx < NumScopes

\* ------------------------------------------------------------------------
\* C13 - Instantiated-set tracks the table: in every state the
\* Instantiated-set is the set of non-root scopes whose table entry
\* make_mir_scope has written, and when the pass has finished it holds every
\* non-root scope.
\* ------------------------------------------------------------------------
C13_InstantiatedTracksTable ==
    /\ instantiated = written \cap NonRootScopes
    /\ pc = "done" => instantiated = NonRootScopes

\* Scopes that are materialized with a lexical block of their own.
OwnBlockScopes == {s \in NonRootScopes : ~CollapseCase(s) /\ ~IsInlined(s)}

\* ------------------------------------------------------------------------
\* C14 - Lexical-block nesting matches the finished table: when the pass has
\* finished, the dbg_scope of every non-root scope materialized without
\* inlining information is a lexical block whose container is the dbg_scope
\* the table holds for the scope's parent.
\* ------------------------------------------------------------------------
C14_BlockNestedInParentNode ==
    pc = "done" =>
       \A s \in OwnBlockScopes :
          /\ scopes[s].dbg_scope.kind = "block"
          /\ blocks[scopes[s].dbg_scope.id].parent = scopes[ParentId(s)].dbg_scope

\* ------------------------------------------------------------------------
\* C15 - inlined_at inheritance in the finished table: when the pass has
\* finished, every non-root scope materialized with its own lexical block
\* has the inlined_at the table holds for its parent.
\* ------------------------------------------------------------------------
C15_InlinedAtInherited ==
    pc = "done" =>
       \A s \in OwnBlockScopes :
          scopes[s].inlined_at = scopes[ParentId(s)].inlined_at

\* The callsite offsets met when following an inlined_at chain outwards.
RECURSIVE ChainOffsets(_)
ChainOffsets(inlined_at) ==
    IF inlined_at = None THEN <<>>
    ELSE <<Unwrap(inlined_at).pos>> \o ChainOffsets(Unwrap(inlined_at).inlined_at)

\* The callsite offsets of the inlined scopes on the path from s to the
\* root, innermost first.
RECURSIVE InlinedPath(_)
InlinedPath(s) ==
    IF IsRoot(s) THEN <<>>
    ELSE (IF IsInlined(s) THEN <<CallsiteLo(s)>> ELSE <<>>)
            \o InlinedPath(ParentId(s))

\* ------------------------------------------------------------------------
\* C16 - Inlined-at chain shape: every record written for a non-root scope
\* has inlined_at absent exactly when neither the scope nor an ancestor is
\* inlined; the location of an inlined scope encloses the parent's
\* inlined_at as read at that moment; and the chain holds one location per
\* inlined scope on the path to the root, innermost first, each at that
\* scope's callsite offset.
\* ------------------------------------------------------------------------
C16_InlinedAtChain ==
    [][\A s \in NonRootScopes :
          (WriteCount(s))' > WriteCount(s) =>
             /\ scopes'[s].inlined_at = None <=> InlinedPath(s) = <<>>
             /\ ChainOffsets(scopes'[s].inlined_at) = InlinedPath(s)
             /\ IsInlined(s) =>
                   Unwrap(scopes'[s].inlined_at).inlined_at
                      = scopes[ParentId(s)].inlined_at]_vars

\* A scope inlined inside an inlined scope has a chain of two locations.
C16_Witness ==
    \E s \in written \cap NonRootScopes :
       /\ IsInlined(s)
       /\ IsInlined(ParentId(s))
       /\ Len(ChainOffsets(scopes[s].inlined_at)) = 2

\* ------------------------------------------------------------------------
\* C17 - Inlined scopes are never collapsed: the step that decides on an
\* inlined scope either panics or writes a record of its own, with or without
\* a usage set and whether or not the scope is in it; every record written
\* for an inlined scope has the callee's function-level node as dbg_scope,
\* comes with no lexical-block creation, and has as inlined_at a location at
\* the scope's callsite offset that is not the parent's inlined_at.
\* ------------------------------------------------------------------------
C17_InlinedNeverCollapsed ==
    [][/\ \A s \in NonRootScopes :
             (Running /\ top.at = "parent_done" /\ top.scope = s /\ IsInlined(s)) =>
                \/ pc' = "panicked"
                \/ (WriteCount(s))' > WriteCount(s)
       /\ \A s \in NonRootScopes :
             (IsInlined(s) /\ (WriteCount(s))' > WriteCount(s)) =>
                /\ scopes'[s].dbg_scope =
                      [kind |-> "callee", id |-> Unwrap(inlined_of(s)).callee,
                       file |-> 0]
                /\ blocks' = blocks
                /\ \E i \in (Len(calls) + 1)..Len(calls') :
                      calls'[i] = Event("dbg_scope_fn", s,
                                        Unwrap(inlined_of(s)).callee, 0)
                /\ scopes'[s].inlined_at # None
                /\ Unwrap(scopes'[s].inlined_at).pos = CallsiteLo(s)
                /\ scopes'[s].inlined_at # scopes[ParentId(s)].inlined_at]_vars

\* With a usage set present, an inlined scope absent from the set and one
\* that is in the set have both been given their callee's node.
C17_Witness ==
    /\ variables # None
    /\ \E s, t \in written \cap NonRootScopes :
          /\ IsInlined(s) /\ IsInlined(t)
          /\ s \notin Unwrap(variables)
          /\ t \in Unwrap(variables)
          /\ scopes[s].dbg_scope.kind = "callee"
          /\ scopes[t].dbg_scope.kind = "callee"

\* ------------------------------------------------------------------------
\* C18 (as stated) - No collapsing without a usage set: when full debug
\* information is not requested no scope is collapsed, every non-root scope
\* that has a record has a node of its own, and the pass does not end in an
\* error.
\* ------------------------------------------------------------------------
C18_CompletesWithoutError ==
    debuginfo # "Full" =>
       /\ instantiated = {}
       /\ \A s \in written \cap NonRootScopes :
             \/ /\ IsInlined(s)
                /\ scopes[s].dbg_scope.kind = "callee"
             \/ /\ ~IsInlined(s)
                /\ scopes[s].dbg_scope.kind = "block"
                /\ blocks[scopes[s].dbg_scope.id].scope = s
       /\ pc # "panicked"

\* ------------------------------------------------------------------------
\* C18 (amended) - No collapsing without a usage set: when full debug
\* information is not requested no scope is collapsed and every record
\* written for a non-root scope holds its own node (a fresh lexical block
\* inside the parent's current node when the scope is not inlined); the pass
\* comes to an end, with a record for every scope, unless the clone
\* primitive fails, which is the only error.
\* ------------------------------------------------------------------------
C18_NoCollapseWithoutSet ==
    /\ [][debuginfo # "Full" =>
             /\ variables' = None
             /\ instantiated' = {}
             /\ \A s \in NonRootScopes :
                   (WriteCount(s))' > WriteCount(s) =>
                      IF IsInlined(s)
                      THEN scopes'[s].dbg_scope.kind = "callee"
                      ELSE /\ Len(blocks') = Len(blocks) + 1
                           /\ scopes'[s].dbg_scope =
                                 [kind |-> "block", id |-> Len(blocks'), file |-> 0]
                           /\ blocks'[Len(blocks')].scope = s
                           /\ blocks'[Len(blocks')].parent
                                 = scopes[ParentId(s)].dbg_scope
             /\ pc' = "done" => NonRootScopes \subseteq written']_vars
    /\ [][(debuginfo # "Full" /\ pc' = "panicked") =>
             calls'[Len(calls')].op = "clone"]_vars
    /\ (debuginfo # "Full") ~> (pc = "done" \/ pc = "panicked")

\* Without a usage set the pass finished on a scope without variables whose
\* lexical block lies inside the lexical block of its parent.
C18_Witness ==
    /\ debuginfo # "Full"
    /\ pc = "done"
    /\ \E s \in NonRootScopes :
          /\ ~IsInlined(s)
          /\ ~IsRoot(ParentId(s))
          /\ ~IsInlined(ParentId(s))
          /\ scopes[s].dbg_scope.kind = "block"
          /\ blocks[scopes[s].dbg_scope.id].parent.kind = "block"

\* Nesting depth of a scope: the number of its ancestors.
RECURSIVE Depth(_)
Depth(s) == IF IsRoot(s) THEN 0 ELSE 1 + Depth(ParentId(s))

\* The active calls are a scope followed by its successive ancestors, each
\* caller waiting for the one call it made for its parent.
StackFollowsAncestors ==
    /\ \A k \in 1..(Len(stack) - 1) :
          /\ stack[k].at = "parent_done"
          /\ ~IsRoot(stack[k].scope)
          /\ stack[k + 1].scope = ParentId(stack[k].scope)
    /\ stack # <<>> => Len(stack) <= Depth(stack[1].scope) + 1

\* ------------------------------------------------------------------------
\* C19 - Termination and completeness: the pass eventually finishes unless
\* the clone primitive fails; the active calls of one driver call are the
\* scope and successive ancestors, one call per ancestor, so the recursion
\* depth is bounded by the nesting depth; when the pass has finished every
\* scope has a written record with its file bounds set.
\* ------------------------------------------------------------------------
C19_TerminationAndCompleteness ==
    /\ <>(pc = "done" \/ pc = "panicked")
    /\ []StackFollowsAncestors
    /\ [](pc = "done" =>
             \A s \in ScopeIds :
                /\ s \in written
                /\ WriteCount(s) >= 1
                /\ scopes[s].file_end_pos > scopes[s].file_start_pos)

\* The pass finished on a forest with a scope two levels below the root, and
\* its parent has the larger index.
C19_Witness ==
    /\ pc = "done"
    /\ \E s \in NonRootScopes : Depth(s) = 2 /\ ParentId(s) > s

====
